---- MODULE Spec2Model ----
(***************************************************************************)
(* Streaming time-series dashboard: the bounded stream buffer of the       *)
(* useDataStream hook, its ingestion timer, the DataGenerator, and the     *)
(* frame-callback loops of the chart renderers and the metrics hook.       *)
(***************************************************************************)
EXTENDS Integers, Sequences, FiniteSets, TLC

(***************************************************************************)
(* Bounds of the model                                                     *)
(***************************************************************************)
MaxCap == 2          \* largest maxDataPoints option tried
MaxInitial == 2      \* largest initialCount option tried
MaxAdd == 2          \* largest count handed to addDataPoints
MaxSamples == 4      \* samples the generator produces in one run
MaxClock == 2        \* largest value of the wall clock (Date.now())
MaxTimers == 2       \* interval timers active at the same time
MaxArrays == 5       \* array objects alive at the same time

(***************************************************************************)
(* Program constants                                                       *)
(***************************************************************************)
interval == 100      \* generateBatch: const interval = 100

Categories == {"temperature"}
Values == {50}

Min(a, b) == IF a < b THEN a ELSE b
Max(a, b) == IF a > b THEN a ELSE b

(***************************************************************************)
(* Numbers: the quotients the pipeline computes, as exact fractions        *)
(***************************************************************************)
Abs(a) == IF a < 0 THEN 0 - a ELSE a

RECURSIVE GCD(_, _)
GCD(a, b) == IF b = 0 THEN a ELSE GCD(b, a % b)

\* The fraction n / d, d # 0, in lowest terms with a positive denominator.
Frac(n, d) ==
  LET g == GCD(Abs(n), Abs(d))
      sign == IF d < 0 THEN 0 - 1 ELSE 1
  IN  [num |-> sign * (n \div g), den |-> sign * (d \div g)]

Whole(n) == [num |-> n, den |-> 1]
Plus(x, y) == Frac(x.num * y.den + y.num * x.den, x.den * y.den)
Minus(x, y) == Frac(x.num * y.den - y.num * x.den, x.den * y.den)
Times(x, y) == Frac(x.num * y.num, x.den * y.den)
Over(x, y) == Frac(x.num * y.den, x.den * y.num)
Less(x, y) == x.num * y.den < y.num * x.den

\* Math.floor(x)
Floor(x) == x.num \div x.den

\* Math.round(x): the nearest integer, halves towards positive infinity.
Round(x) == Floor(Plus(x, Frac(1, 2)))

\* The sum, the least and the greatest of a non-empty array of integers.
RECURSIVE Sum(_)
Sum(values) == IF values = <<>> THEN 0 ELSE Head(values) + Sum(Tail(values))
MathMin(values) == CHOOSE v \in {values[i] : i \in DOMAIN values} :
                     \A i \in DOMAIN values : v <= values[i]
MathMax(values) == CHOOSE v \in {values[i] : i \in DOMAIN values} :
                     \A i \in DOMAIN values : v >= values[i]


VARIABLES
  maxDataPoints,     \* option of useDataStream
  initialCount,      \* option of useDataStream
  phase,             \* "constructed" | "mounted" | "unmounted"
  now,               \* Date.now()
  baseTime,          \* generatorRef.current.baseTime
  heap,              \* the array objects: id -> sequence of samples
  dataRef,           \* the array object that is the `data` state
  isStreaming,       \* the isStreaming state
  seenStreaming,     \* isStreaming as captured by the callbacks of the last render
  intervalRef,       \* intervalRef.current (0 is null)
  timers,            \* handles of the interval timers that are active
  lastTimestampRef,  \* lastTimestampRef.current
  snapRef,           \* the array handed to the consumers at the last render (0: none)
  sortedRef,         \* DataTable's sortedData (0: none)
  filteredRef,       \* DataProvider's filteredData (0: none)
  snapCopy,          \* history: content of snapRef when it was handed out
  sortedCopy,        \* history: content of sortedRef when it was computed
  filteredCopy,      \* history: content of filteredRef when it was computed
  nextSeq,           \* history: identity of the next sample object created
  tickCount,         \* history: ticks since the last other buffer write, counted up to maxDataPoints + 1
  lastBatch,         \* history: the last addDataPoints call, see noBatch
  lastGen,           \* history: argument and result of the last generateNext call
  lastWrite          \* history: the last operation if it wrote the buffer, else "none"

streamVars == <<maxDataPoints, initialCount, phase, now, baseTime, heap, dataRef,
                isStreaming, seenStreaming, intervalRef, timers,
                lastTimestampRef, snapRef, sortedRef, filteredRef, snapCopy,
                sortedCopy, filteredCopy, nextSeq, tickCount, lastBatch, lastGen, lastWrite>>

VARIABLES
  chart,             \* useChartRenderer (LineChart): refs and pending frame callbacks
  plot,              \* BarChart / ScatterPlot / Heatmap: ref and pending frame callbacks
  monitor            \* usePerformanceMonitor: refs, timers and pending frame callbacks

loopVars == <<chart, plot, monitor>>

\* Calls of the pure functions of the data pipeline and of the canvas
\* utilities: the sample array and the other arguments handed in, the name of
\* the function last called, and what it returned.
VARIABLES samples, args, called, returned
callVars == <<samples, args, called, returned>>

\* The components beside the stream: the table's virtualization hook, the
\* PerformanceMonitor object, the clock it reads and the metrics state of its
\* hook, the DataProvider's state,
\* and the number of points the configured dashboard holds.
VARIABLES table, sampler, perfNow, metrics, provider, dashboard
uiVars == <<table, sampler, perfNow, metrics, provider, dashboard>>

vars == <<streamVars, loopVars, callVars, uiVars>>

(***************************************************************************)
(* Arrays                                                                  *)
(***************************************************************************)
\* Array.prototype.slice(start): a negative start counts from the end.
slice(arr, start) ==
  LET n == Len(arr)
      s == IF start < 0 THEN Max(n + start, 0) ELSE Min(start, n)
  IN  SubSeq(arr, s + 1, n)

\* Array.prototype.slice(start, end) for 0 <= start <= end.
sliceRange(arr, start, end) == SubSeq(arr, Min(start, Len(arr)) + 1, Min(end, Len(arr)))

data == heap[dataRef]

Roots(d, s, t, f) == ({d, s, t, f}) \ {0}

\* An array object no live reference names.
FreeId(roots) == CHOOSE i \in 1..MaxArrays : i \notin roots /\ \A j \in 1..(i - 1) : j \in roots

\* Array objects that nothing references any more are dropped.
Collect(h, roots) == [i \in DOMAIN h |-> IF i \in roots THEN h[i] ELSE <<>>]


(***************************************************************************)
(* DataGenerator                                                           *)
(***************************************************************************)
\* generatePoint(category, offset): the random draws (category, value) are
\* arguments; seq stands for the identity of the object created.
generatePoint(base, category, value, offset, seq) ==
  [timestamp |-> base + offset, value |-> value, category |-> category, seq |-> seq]

\* generateNext(lastTimestamp)
generateNext(base, lastTimestamp, category, value, seq) ==
  generatePoint(base, category, value, lastTimestamp + 100, seq)

\* generateBatch(count, startTime): startTime 0 stands for an absent argument.
generateBatch(base, count, startTime, cs, vs, seq0) ==
  LET start == IF startTime # 0 THEN startTime ELSE base
  IN  [i \in 1..count |->
         generatePoint(base, cs[i], vs[i], start + (i - 1) * interval, seq0 + i - 1)]

\* DataGenerator.reset(): the new baseTime.
resetKeepsBaseTime(base, clock) == base
reset(base, clock) == clock

(***************************************************************************)
(* useDataStream: the updaters handed to setData                           *)
(***************************************************************************)
\* The interval callback's updater: append one point, keep the newest cap.
appendPointKeepsOldest(prevData, newPoint, cap) ==
  LET updated == Append(prevData, newPoint)
  IN  IF Len(updated) > cap THEN sliceRange(updated, 0, cap) ELSE updated
appendPoint(prevData, newPoint, cap) ==
  LET updated == Append(prevData, newPoint)
  IN  IF Len(updated) > cap THEN slice(updated, 0 - cap) ELSE updated

\* The for loop of addDataPoints: each point is generated from the one before.
RECURSIVE generateLoop(_, _, _, _, _, _)
generateLoop(base, lastTs, cs, vs, seq0, newPoints) ==
  IF Len(newPoints) = Len(cs)
  THEN newPoints
  ELSE LET i == Len(newPoints) + 1
           point == generateNext(base, lastTs, cs[i], vs[i], seq0 + i - 1)
       IN  generateLoop(base, point.timestamp, cs, vs, seq0, Append(newPoints, point))

\* The updater of addDataPoints: append the batch, one trim at the end.
appendBatch(prevData, newPoints, cap) ==
  LET updated == prevData \o newPoints
  IN  IF Len(updated) > cap THEN slice(updated, 0 - cap) ELSE updated

\* What appending the points one by one, as the interval callback does, leaves.
RECURSIVE appendEach(_, _, _)
appendEach(prevData, newPoints, cap) ==
  IF newPoints = <<>>
  THEN prevData
  ELSE appendEach(appendPoint(prevData, Head(newPoints), cap), Tail(newPoints), cap)

\* [...prevData, newPoint] and slice() build a new array object: the array
\* object the updater's result lives in.
updatedInPlace(prevRef, free) == prevRef
updatedArray(prevRef, free) == free

(***************************************************************************)
(* Consumers of the data state                                             *)
(***************************************************************************)
filterDataExclusive(arr, filters) ==
  SelectSeq(arr, LAMBDA point :
    /\ ~(filters.hasCategories /\ point.category \notin filters.categories)
    /\ ~(filters.hasMin /\ point.value <= filters.minValue)
    /\ ~(filters.hasMax /\ point.value >= filters.maxValue)
    /\ ~(filters.hasRange /\ (point.timestamp <= filters.start \/ point.timestamp >= filters.end)))
filterDataConsumesFirst(arr, filters) ==
  LET kept == SelectSeq(arr, LAMBDA point :
                ~(filters.hasMin /\ point.value < filters.minValue))
  IN  IF kept = <<>> THEN kept ELSE Tail(kept)
\* filterData(data, filters)
filterData(arr, filters) ==
  SelectSeq(arr, LAMBDA point :
    /\ ~(filters.hasCategories /\ point.category \notin filters.categories)
    /\ ~(filters.hasMin /\ point.value < filters.minValue)
    /\ ~(filters.hasMax /\ point.value > filters.maxValue)
    /\ ~(filters.hasRange /\ (point.timestamp < filters.start \/ point.timestamp > filters.end)))

\* Insertion of x into a sequence sorted by descending timestamp, after its equals.
RECURSIVE insertDesc(_, _)
insertDesc(sorted, x) ==
  IF sorted = <<>> THEN <<x>>
  ELSE IF Head(sorted).timestamp < x.timestamp THEN <<x>> \o sorted
  ELSE <<Head(sorted)>> \o insertDesc(Tail(sorted), x)

\* arr.sort((a, b) => b.timestamp - a.timestamp): a stable sort.
RECURSIVE sortDesc(_)
sortDesc(arr) ==
  IF arr = <<>> THEN <<>> ELSE insertDesc(sortDesc(SubSeq(arr, 1, Len(arr) - 1)), arr[Len(arr)])

\* DataTable: [...data].sort(...) sorts a copy; the array object that is sorted.
sortedInPlace(srcRef, free) == srcRef
sortedArray(srcRef, free) == free


\* FilterOptions as the DataProvider holds them; an absent field has its flag off.
noFilters ==
  [hasCategories |-> TRUE, categories |-> {}, hasMin |-> FALSE, minValue |-> 0,
   hasMax |-> FALSE, maxValue |-> 0, hasRange |-> FALSE, start |-> 0, end |-> 0]

FilterChoices ==
  {noFilters, [noFilters EXCEPT !.hasRange = TRUE, !.start = 0, !.end = 150]}

\* DataProvider's filteredData before aggregation: TRUE when filterData is
\* called, FALSE when the result is the data array itself.
providerFilters(filters) ==
  \/ filters.hasCategories /\ filters.categories # {}
  \/ filters.hasMin \/ filters.hasMax \/ filters.hasRange

\* The filters object DataProvider hands to filterData.
providerArgument(filters) ==
  IF filters.hasCategories /\ filters.categories # {}
  THEN filters
  ELSE [filters EXCEPT !.hasCategories = FALSE]

(***************************************************************************)
(* useDataStream: state after construction and the operations              *)
(***************************************************************************)
\* No generateNext call / no addDataPoints call was the last operation.
noGen == [arg |-> 0, timestamp |-> 0]

\* count: the argument; all: the old buffer followed by the new points;
\* each: what appending the new points one by one leaves.
noBatch == [count |-> 0 - 1, all |-> <<>>, each |-> <<>>]

StreamInit ==
  /\ maxDataPoints \in (0 - 1)..MaxCap
  /\ initialCount \in 0..MaxInitial
  /\ phase = "constructed"
  /\ now = 1
  /\ baseTime = 1
  /\ heap = [i \in 1..MaxArrays |-> <<>>]
  /\ dataRef = 1
  /\ isStreaming = FALSE
  /\ seenStreaming = FALSE
  /\ intervalRef = 0
  /\ timers = {}
  /\ lastTimestampRef = 0
  /\ snapRef = 0 /\ sortedRef = 0 /\ filteredRef = 0
  /\ snapCopy = <<>> /\ sortedCopy = <<>> /\ filteredCopy = <<>>
  /\ nextSeq = 1
  /\ tickCount = 0
  /\ lastBatch = noBatch
  /\ lastGen = noGen
  /\ lastWrite = "none"

\* setData(value): the state becomes the array object `target` holding `value`.
SetData(target, value) ==
  /\ dataRef' = target
  /\ heap' = Collect([heap EXCEPT ![target] = value],
                     Roots(target, snapRef, sortedRef, filteredRef))

LiveRoots == Roots(dataRef, snapRef, sortedRef, filteredRef)

\* Date.now() moves on.
AdvanceClock ==
  /\ phase # "unmounted"
  /\ now < MaxClock
  /\ now' = now + 1
  /\ lastWrite' = "none"
  /\ UNCHANGED <<loopVars, callVars, uiVars>>
  /\ lastBatch' = noBatch
  /\ lastGen' = noGen
  /\ UNCHANGED <<maxDataPoints, initialCount, phase, baseTime, heap, dataRef,
                 isStreaming, seenStreaming, intervalRef, timers,
                 lastTimestampRef, snapRef, sortedRef, filteredRef, snapCopy,
                 sortedCopy, filteredCopy, nextSeq, tickCount>>

\* The effect that loads the initial batch.
InitialLoad ==
  /\ phase = "constructed"
  /\ nextSeq + initialCount - 1 <= MaxSamples
  /\ \E cs \in [1..initialCount -> Categories], vs \in [1..initialCount -> Values] :
       LET initialData == generateBatch(baseTime, initialCount, 0, cs, vs, nextSeq)
       IN  /\ SetData(FreeId(LiveRoots), initialData)
           /\ lastTimestampRef' =
                IF Len(initialData) > 0
                THEN initialData[Len(initialData)].timestamp
                ELSE lastTimestampRef
  /\ phase' = "mounted"
  /\ nextSeq' = nextSeq + initialCount
  /\ tickCount' = 0
  /\ lastWrite' = "initialLoad"
  /\ UNCHANGED <<loopVars, callVars, uiVars>>
  /\ lastBatch' = noBatch
  /\ lastGen' = noGen
  /\ UNCHANGED <<maxDataPoints, initialCount, now, baseTime, isStreaming, seenStreaming,
                 intervalRef, timers, snapRef, sortedRef, filteredRef,
                 snapCopy, sortedCopy, filteredCopy>>

\* The handle setInterval returns: one that names no active timer.
setInterval == CHOOSE h \in 1..MaxTimers : h \notin timers /\ \A g \in 1..(h - 1) : g \in timers

\* startStreaming(), as created by the last render.
StartStreaming ==
  /\ phase = "mounted"
  /\ ~seenStreaming
  /\ Cardinality(timers) < MaxTimers
  /\ isStreaming' = TRUE
  /\ intervalRef' = setInterval
  /\ timers' = timers \cup {setInterval}
  /\ lastWrite' = "none"
  /\ UNCHANGED <<loopVars, callVars, uiVars>>
  /\ lastBatch' = noBatch
  /\ lastGen' = noGen
  /\ UNCHANGED <<maxDataPoints, initialCount, phase, now, baseTime, heap, dataRef,
                 seenStreaming, lastTimestampRef, snapRef, sortedRef, filteredRef,
                 snapCopy, sortedCopy, filteredCopy, nextSeq, tickCount>>

\* The interval callback of timer h.
Tick(h) ==
  /\ phase = "mounted"
  /\ h \in timers
  /\ nextSeq <= MaxSamples
  /\ \E c \in Categories, v \in Values :
       LET arg == IF lastTimestampRef # 0 THEN lastTimestampRef ELSE now
           newPoint == generateNext(baseTime, arg, c, v, nextSeq)
       IN  /\ lastTimestampRef' = newPoint.timestamp
           /\ SetData(updatedArray(dataRef, FreeId(LiveRoots)),
                      appendPoint(data, newPoint, maxDataPoints))
           /\ tickCount' = Min(tickCount + 1, Max(maxDataPoints, 0) + 1)
           /\ lastGen' = [arg |-> arg, timestamp |-> newPoint.timestamp]
  /\ nextSeq' = nextSeq + 1
  /\ lastWrite' = "tick"
  /\ UNCHANGED <<loopVars, callVars, uiVars>>
  /\ lastBatch' = noBatch
  /\ UNCHANGED <<maxDataPoints, initialCount, phase, now, baseTime, isStreaming,
                 seenStreaming, intervalRef, timers, snapRef, sortedRef,
                 filteredRef, snapCopy, sortedCopy, filteredCopy>>

\* stopStreaming(): what it does to the timer and the streaming flag.
StopTimer ==
  /\ timers' = IF intervalRef # 0 THEN timers \ {intervalRef} ELSE timers
  /\ intervalRef' = 0
  /\ isStreaming' = FALSE

StopStreaming ==
  /\ phase = "mounted"
  /\ StopTimer
  /\ lastWrite' = "none"
  /\ UNCHANGED <<loopVars, callVars, uiVars>>
  /\ lastBatch' = noBatch
  /\ lastGen' = noGen
  /\ UNCHANGED <<maxDataPoints, initialCount, phase, now, baseTime, heap, dataRef,
                 seenStreaming, lastTimestampRef, snapRef, sortedRef,
                 filteredRef, snapCopy, sortedCopy, filteredCopy, nextSeq, tickCount>>

\* resetData()
ResetData ==
  /\ phase = "mounted"
  /\ nextSeq + initialCount - 1 <= MaxSamples
  /\ StopTimer
  /\ baseTime' = reset(baseTime, now)
  /\ \E cs \in [1..initialCount -> Categories], vs \in [1..initialCount -> Values] :
       LET newData == generateBatch(baseTime', initialCount, 0, cs, vs, nextSeq)
       IN  /\ SetData(FreeId(LiveRoots), newData)
           /\ lastTimestampRef' =
                IF Len(newData) > 0
                THEN newData[Len(newData)].timestamp
                ELSE lastTimestampRef
  /\ nextSeq' = nextSeq + initialCount
  /\ tickCount' = 0
  /\ lastWrite' = "resetData"
  /\ UNCHANGED <<loopVars, callVars, uiVars>>
  /\ lastBatch' = noBatch
  /\ lastGen' = noGen
  /\ UNCHANGED <<maxDataPoints, initialCount, phase, now, seenStreaming,
                 snapRef, sortedRef, filteredRef, snapCopy, sortedCopy, filteredCopy>>

\* addDataPoints(count)
AddDataPoints(count) ==
  /\ phase = "mounted"
  /\ nextSeq + count - 1 <= MaxSamples
  /\ \E cs \in [1..count -> Categories], vs \in [1..count -> Values] :
       LET lastTs == IF Len(data) > 0 THEN data[Len(data)].timestamp ELSE now
           newPoints == generateLoop(baseTime, lastTs, cs, vs, nextSeq, <<>>)
       IN  /\ SetData(updatedArray(dataRef, FreeId(LiveRoots)),
                      appendBatch(data, newPoints, maxDataPoints))
           /\ lastBatch' = [count |-> count, all |-> data \o newPoints,
                            each |-> appendEach(data, newPoints, maxDataPoints)]
           /\ lastGen' =
                IF count > 0
                THEN [arg |-> IF count = 1 THEN lastTs
                              ELSE newPoints[count - 1].timestamp,
                      timestamp |-> newPoints[count].timestamp]
                ELSE noGen
  /\ nextSeq' = nextSeq + count
  /\ tickCount' = 0
  /\ lastWrite' = "addDataPoints"
  /\ UNCHANGED <<loopVars, callVars, uiVars>>
  /\ UNCHANGED <<maxDataPoints, initialCount, phase, now, baseTime, isStreaming,
                 seenStreaming, intervalRef, timers, lastTimestampRef,
                 snapRef, sortedRef, filteredRef, snapCopy, sortedCopy, filteredCopy>>

\* The cleanup of the unmount effect. React then discards the hook's state and
\* refs (no callback reads them again: Tick needs the hook mounted), so they
\* are left at their initial values; the timers belong to the host and stay.
Unmount ==
  /\ phase = "mounted"
  /\ phase' = "unmounted"
  /\ timers' = IF intervalRef # 0 THEN timers \ {intervalRef} ELSE timers
  /\ baseTime' = 1
  /\ heap' = [i \in 1..MaxArrays |-> <<>>]
  /\ dataRef' = 1
  /\ isStreaming' = FALSE
  /\ seenStreaming' = FALSE
  /\ intervalRef' = 0
  /\ lastTimestampRef' = 0
  /\ snapRef' = 0 /\ sortedRef' = 0 /\ filteredRef' = 0
  /\ snapCopy' = <<>> /\ sortedCopy' = <<>> /\ filteredCopy' = <<>>
  /\ nextSeq' = 1
  /\ tickCount' = 0
  /\ lastWrite' = "none"
  /\ UNCHANGED <<loopVars, callVars, uiVars>>
  /\ lastBatch' = noBatch
  /\ lastGen' = noGen
  /\ UNCHANGED <<maxDataPoints, initialCount, now>>


\* A render of the hook: the callbacks capture the current isStreaming.
HookRender ==
  /\ phase = "mounted"
  /\ seenStreaming' = isStreaming
  /\ lastWrite' = "none"
  /\ UNCHANGED <<loopVars, callVars, uiVars>>
  /\ lastBatch' = noBatch
  /\ lastGen' = noGen
  /\ UNCHANGED <<maxDataPoints, initialCount, phase, now, baseTime, dataRef,
                 isStreaming, intervalRef, timers, lastTimestampRef,
                 nextSeq, tickCount>>

\* The consumers at a render: the data array is handed to the DataProvider,
\* whose filteredData (the data array itself or the result of filterData) goes
\* to the charts and to the DataTable, which sorts a copy of it.
ConsumersRender ==
  \E filters \in FilterChoices :
    LET fId == IF providerFilters(filters) THEN FreeId({dataRef}) ELSE dataRef
        h1 == IF providerFilters(filters)
              THEN [heap EXCEPT ![fId] = filterData(data, providerArgument(filters))]
              ELSE heap
        sId == sortedArray(fId, FreeId({dataRef, fId}))
        h2 == [h1 EXCEPT ![sId] = sortDesc(h1[fId])]
    IN  /\ snapRef' = dataRef
        /\ snapCopy' = data
        /\ filteredRef' = fId
        /\ filteredCopy' = h1[fId]
        /\ sortedRef' = sId
        /\ sortedCopy' = h2[sId]
        /\ heap' = Collect(h2, Roots(dataRef, dataRef, sId, fId))

\* The hook rendered alone.
Rerender ==
  /\ HookRender
  /\ UNCHANGED <<heap, snapRef, sortedRef, filteredRef, snapCopy, sortedCopy,
                 filteredCopy>>

\* The hook rendered inside the dashboard.
Render ==
  /\ HookRender
  /\ ConsumersRender

StreamNext ==
  \/ AdvanceClock
  \/ InitialLoad
  \/ StartStreaming
  \/ \E h \in 1..MaxTimers : Tick(h)
  \/ StopStreaming
  \/ ResetData
  \/ \E count \in 0..MaxAdd : AddDataPoints(count)
  \/ Unmount

(***************************************************************************)
(* Properties of the stream buffer                                         *)
(***************************************************************************)
LastN(arr, n) == SubSeq(arr, Len(arr) - n + 1, Len(arr))

\* C1: with maxDataPoints >= 1, after more than maxDataPoints consecutive
\* ingestion ticks the buffer holds exactly maxDataPoints samples, and they are
\* the maxDataPoints most recently appended ones in the order of appending
\* (the sample objects are numbered in the order they are created).
C1_NewestKept ==
  (maxDataPoints >= 1 /\ tickCount > maxDataPoints) =>
    /\ Len(data) = maxDataPoints
    /\ \A i \in 1..Len(data) : data[i].seq = nextSeq - maxDataPoints + i - 1

\* More than maxDataPoints ticks have run on the largest capacity.
C1_Witness ==
  maxDataPoints = MaxCap /\ tickCount > maxDataPoints /\ lastWrite = "tick"

\* C2: with maxDataPoints >= 1 the buffer never holds more than maxDataPoints
\* samples, whatever initialCount is.
C2_LengthBounded == maxDataPoints >= 1 => Len(data) <= maxDataPoints

\* C3: the timestamps of the buffer are non-decreasing in buffer order (stated
\* for the capacities maxDataPoints >= 1 alone).
C3_TimestampsNonDecreasing ==
  maxDataPoints >= 1 =>
  \A i \in 1..(Len(data) - 1) : data[i].timestamp <= data[i + 1].timestamp

\* C5: every active ingestion timer is the one whose handle intervalRef holds,
\* so that none is active once stopStreaming, resetData or the unmount cleanup
\* has cleared that one (stated for the capacities maxDataPoints >= 1 alone).
C5_TimersHeld == maxDataPoints >= 1 => timers \subseteq {intervalRef}

\* C7: generateNext(lastTimestamp) returns a sample stamped lastTimestamp + 100,
\* whatever baseTime is (stated for the capacities maxDataPoints >= 1 alone).
C7_NextTimestamp ==
  (maxDataPoints >= 1 /\ lastGen # noGen) => lastGen.timestamp = lastGen.arg + 100

\* C8: with maxDataPoints >= 1, addDataPoints(k) leaves the last
\* min(oldLength + k, maxDataPoints) elements of the old buffer followed by the
\* new samples, which is what k single appends of the same samples leave.
C8_BatchEqualsSingles ==
  (maxDataPoints >= 1 /\ lastWrite = "addDataPoints") =>
    /\ data = LastN(lastBatch.all, Min(Len(lastBatch.all), maxDataPoints))
    /\ data = lastBatch.each

\* C9: a capacity maxDataPoints <= 0 is rejected at construction, so that no
\* append ever runs under it.
C9_CapacityRejected ==
  maxDataPoints <= 0 => lastWrite \notin {"tick", "addDataPoints"}

\* C10 as claimed: resetData leaves an empty buffer and a restarted generator.
C10_ResetEmpties ==
  lastWrite = "resetData" => (data = <<>> /\ baseTime = now)

\* C10 as the code has it: resetData stops the timer held in intervalRef,
\* restarts the generator's baseTime at the current clock and replaces the
\* buffer by a fresh batch of initialCount samples, which is empty only when
\* initialCount = 0; lastTimestampRef follows the batch when it is not empty.
C10_ResetReloads ==
  lastWrite = "resetData" =>
    /\ Len(data) = initialCount
    /\ \A i \in 1..Len(data) : data[i].seq = nextSeq - initialCount + i - 1
    /\ baseTime = now
    /\ intervalRef = 0 /\ ~isStreaming
    /\ initialCount > 0 => lastTimestampRef = data[Len(data)].timestamp

\* resetData ran on a loaded buffer after the clock had moved on.
C10_Witness ==
  lastWrite = "resetData" /\ Len(data) > 0 /\ baseTime > 1 /\ nextSeq > initialCount + 1


MaxFrames == 3       \* frames one loop owner requests in one run

\* A pending frame callback: its handle, and (history) the loop it belongs to,
\* named by the handle that loop's first request returned.
frameCallback(h, l) == [handle |-> h, loop |-> l]

\* cancelAnimationFrame(h)
cancelAnimationFrame(pending, h) == {cb \in pending : cb.handle # h}

\* requestAnimationFrame(loop) by the owner o, for the loop l: the owner with
\* the callback pending, its handle stored in animationFrameRef.
requestAndStore(o, l) ==
  [o EXCEPT !.pending = @ \cup {frameCallback(o.nextFrame, l)},
            !.animationFrameRef = o.nextFrame,
            !.nextFrame = @ + 1]

\* The callback cb fires: loop() runs render() and requests the next frame.
loopFires(o, cb) == requestAndStore([o EXCEPT !.pending = @ \ {cb}], cb.loop)

\* -------- useChartRenderer
chartInit ==
  [phase |-> "constructed", animationFrameRef |-> 0, isRenderingRef |-> FALSE,
   pending |-> {}, nextFrame |-> 1, loop |-> 0]

\* startRenderLoop()
startRenderLoop(c) ==
  IF c.isRenderingRef
  THEN c
  ELSE requestAndStore([c EXCEPT !.isRenderingRef = TRUE, !.loop = c.nextFrame],
                       c.nextFrame)

\* stopRenderLoop()
stopRenderLoopKeepsFrame(c) ==
  [c EXCEPT !.animationFrameRef = 0, !.isRenderingRef = FALSE, !.loop = 0]
stopRenderLoop(c) ==
  [c EXCEPT !.pending = IF c.animationFrameRef # 0
                        THEN cancelAnimationFrame(@, c.animationFrameRef)
                        ELSE @,
            !.animationFrameRef = 0,
            !.isRenderingRef = FALSE,
            !.loop = 0]

\* The effect runs: setupHighDPICanvas, render(), startRenderLoop().
ChartMount ==
  /\ chart.phase = "constructed"
  /\ chart' = startRenderLoop([chart EXCEPT !.phase = "mounted"])
  /\ UNCHANGED <<streamVars, callVars, uiVars, plot, monitor>>

\* Props changed: the effect's cleanup, then the effect again.
ChartRerun ==
  /\ chart.phase = "mounted"
  /\ chart.nextFrame <= MaxFrames
  /\ chart' = startRenderLoop(stopRenderLoop(chart))
  /\ UNCHANGED <<streamVars, callVars, uiVars, plot, monitor>>

\* The frame callback cb of the chart fires.
ChartFrame(cb) ==
  /\ cb \in chart.pending
  /\ chart.nextFrame <= MaxFrames
  /\ chart' = loopFires(chart, cb)
  /\ UNCHANGED <<streamVars, callVars, uiVars, plot, monitor>>

\* The owner of the hook calls the stopRenderLoop it was handed.
ChartStop ==
  /\ chart.phase = "mounted"
  /\ chart' = stopRenderLoop(chart)
  /\ UNCHANGED <<streamVars, callVars, uiVars, plot, monitor>>

\* The owner of the hook calls the startRenderLoop it was handed.
ChartStart ==
  /\ chart.phase = "mounted"
  /\ chart.nextFrame <= MaxFrames
  /\ chart' = startRenderLoop(chart)
  /\ UNCHANGED <<streamVars, callVars, uiVars, plot, monitor>>

\* Unmount: the effect's cleanup.
ChartUnmount ==
  /\ chart.phase = "mounted"
  /\ chart' = [stopRenderLoop(chart) EXCEPT !.phase = "unmounted"]
  /\ UNCHANGED <<streamVars, callVars, uiVars, plot, monitor>>

\* -------- BarChart, ScatterPlot, Heatmap: the loop lives in the effect
plotInit ==
  [phase |-> "constructed", animationFrameRef |-> 0, pending |-> {}, nextFrame |-> 1,
   loop |-> 0]

\* The effect body: render(), then the first requestAnimationFrame(loop).
plotEffect(p) == requestAndStore([p EXCEPT !.loop = p.nextFrame], p.nextFrame)

\* The effect's cleanup.
plotCleanup(p) ==
  [p EXCEPT !.pending = IF p.animationFrameRef # 0
                        THEN cancelAnimationFrame(@, p.animationFrameRef)
                        ELSE @,
            !.loop = 0]

PlotMount ==
  /\ plot.phase = "constructed"
  /\ plot' = plotEffect([plot EXCEPT !.phase = "mounted"])
  /\ UNCHANGED <<streamVars, callVars, uiVars, chart, monitor>>

PlotRerun ==
  /\ plot.phase = "mounted"
  /\ plot.nextFrame <= MaxFrames
  /\ plot' = plotEffect(plotCleanup(plot))
  /\ UNCHANGED <<streamVars, callVars, uiVars, chart, monitor>>

PlotFrame(cb) ==
  /\ cb \in plot.pending
  /\ plot.nextFrame <= MaxFrames
  /\ plot' = loopFires(plot, cb)
  /\ UNCHANGED <<streamVars, callVars, uiVars, chart, monitor>>

PlotUnmount ==
  /\ plot.phase = "mounted"
  /\ plot' = [plotCleanup(plot) EXCEPT !.phase = "unmounted"]
  /\ UNCHANGED <<streamVars, callVars, uiVars, chart, monitor>>


\* -------- PerformanceMonitor
maxFrameTimeHistory == 60

\* The fields of a new PerformanceMonitor, constructed at the time clock.
newPerformanceMonitor(clock) ==
  [frameCount |-> 0, lastFrameTime |-> clock, fps |-> 60, frameTimes |-> <<>>]

\* measureFrame(), called at the time clock
measureFrameKeepsOldest(m, clock) ==
  LET pushed == Append(m.frameTimes, clock - m.lastFrameTime)
      kept == IF Len(pushed) > maxFrameTimeHistory
              THEN SubSeq(pushed, 1, maxFrameTimeHistory) ELSE pushed
  IN  [frameCount |-> m.frameCount + 1,
       frameTimes |-> kept,
       fps |-> Round(Over(Whole(1000), Frac(Sum(kept), Len(kept)))),
       lastFrameTime |-> clock]
measureFrame(m, clock) ==
  LET delta == clock - m.lastFrameTime
      pushed == Append(m.frameTimes, delta)
      kept == IF Len(pushed) > maxFrameTimeHistory THEN Tail(pushed) ELSE pushed
      avgFrameTime == Frac(Sum(kept), Len(kept))
  IN  [frameCount |-> m.frameCount + 1,
       frameTimes |-> kept,
       fps |-> Round(Over(Whole(1000), avgFrameTime)),
       lastFrameTime |-> clock]

\* getMetrics(); memoryUsage is the browser's and dataProcessingTime is always 0.
getMetrics(m) ==
  LET avgFrameTime == IF Len(m.frameTimes) > 0
                      THEN Frac(Sum(m.frameTimes), Len(m.frameTimes))
                      ELSE Whole(0)
  IN  [fps |-> m.fps,
       renderTime |-> Frac(Round(Times(avgFrameTime, Whole(100))), 100),
       dataProcessingTime |-> 0,
       frameCount |-> m.frameCount,
       lastFrameTime |-> m.lastFrameTime]

\* reset(), called at the time clock
resetKeepsFrameCount(m, clock) ==
  [m EXCEPT !.frameTimes = <<>>, !.lastFrameTime = clock]
resetMonitor(m, clock) ==
  [m EXCEPT !.frameCount = 0, !.frameTimes = <<>>, !.lastFrameTime = clock]

\* The metrics state of usePerformanceMonitor as constructed and as its
\* reset() sets it.
initialMetrics ==
  [fps |-> 60, renderTime |-> Whole(0), dataProcessingTime |-> 0, frameCount |-> 0,
   lastFrameTime |-> 0]

\* The time between two frames or calls, in ms.
FrameDeltas == {16, 40}

\* -------- usePerformanceMonitor
monitorInit ==
  [phase |-> "constructed", enabled |-> TRUE, hasCleanup |-> FALSE,
   intervalRef |-> 0, intervals |-> {},
   animationFrameRef |-> 0, pending |-> {}, nextFrame |-> 1, loop |-> 0]

clearInterval(intervals, h) == intervals \ {h}

\* The effect body under the argument enabled; the interval's handle is as
\* fresh as the frame handle the same run is given.
monitorEffect(m, enabled) ==
  IF ~enabled
  THEN [m EXCEPT !.enabled = FALSE, !.hasCleanup = FALSE,
                 !.intervals = IF m.intervalRef # 0
                               THEN clearInterval(@, m.intervalRef) ELSE @,
                 !.intervalRef = 0]
  ELSE requestAndStore(
         [m EXCEPT !.enabled = TRUE, !.hasCleanup = TRUE,
                   !.intervalRef = m.nextFrame,
                   !.intervals = @ \cup {m.nextFrame},
                   !.loop = m.nextFrame],
         m.nextFrame)

\* The cleanup the last run of the effect returned, if it returned one.
monitorCleanup(m) ==
  IF ~m.hasCleanup
  THEN m
  ELSE [m EXCEPT !.intervals = IF m.intervalRef # 0
                               THEN clearInterval(@, m.intervalRef) ELSE @,
                 !.pending = IF m.animationFrameRef # 0
                             THEN cancelAnimationFrame(@, m.animationFrameRef)
                             ELSE @,
                 !.hasCleanup = FALSE,
                 !.loop = 0]

MonMount(enabled) ==
  /\ monitor.phase = "constructed"
  /\ monitor' = monitorEffect([monitor EXCEPT !.phase = "mounted"], enabled)
  /\ UNCHANGED <<streamVars, callVars, uiVars, chart, plot>>

\* The effect runs again, under the same or another value of enabled.
MonRerun(enabled) ==
  /\ monitor.phase = "mounted"
  /\ monitor.nextFrame <= MaxFrames
  /\ monitor' = monitorEffect(monitorCleanup(monitor), enabled)
  /\ UNCHANGED <<streamVars, callVars, uiVars, chart, plot>>

\* The frame callback cb fires, delta ms after the last frame or reset:
\* loop() calls measureFrame() and requests the next frame.
MonFrame(cb) ==
  /\ cb \in monitor.pending
  /\ monitor.nextFrame <= MaxFrames
  /\ monitor' = loopFires(monitor, cb)
  /\ \E delta \in FrameDeltas :
       /\ perfNow' = perfNow + delta
       /\ sampler' = measureFrame(sampler, perfNow + delta)
  /\ UNCHANGED <<streamVars, callVars, table, metrics, provider, dashboard, chart, plot>>

\* The 1-second interval h fires: setMetrics(getMetrics()).
MonTick(h) ==
  /\ h \in monitor.intervals
  /\ metrics' = getMetrics(sampler)
  /\ UNCHANGED <<streamVars, loopVars, callVars, table, sampler, perfNow, provider, dashboard>>

\* reset() of the hook: the object's reset(), then setMetrics of the
\* initial metrics.
MonReset ==
  /\ monitor.phase = "mounted"
  /\ sampler' = resetMonitor(sampler, perfNow)
  /\ metrics' = initialMetrics
  /\ UNCHANGED <<streamVars, loopVars, callVars, table, perfNow, provider, dashboard>>

MonUnmount ==
  /\ monitor.phase = "mounted"
  /\ monitor' = [monitorCleanup(monitor) EXCEPT !.phase = "unmounted"]
  /\ UNCHANGED <<streamVars, callVars, uiVars, chart, plot>>

FrameCallbacks == {frameCallback(h, l) : h \in 1..(MaxFrames + 1), l \in 1..(MaxFrames + 1)}

(***************************************************************************)
(* The components beside the stream, as constructed                        *)
(***************************************************************************)
\* -------- useVirtualization
\* Math.ceil(x)
Ceil(x) == 0 - Floor(Frac(0 - x.num, x.den))

\* The items handed to the hook: n rows, each told from its index.
tableItems(n) == [k \in 1..n |-> [row |-> 1000 + k]]

TableLengths == {0, 1, 12, 10000}
TableOptions == [itemHeight : {7, 40}, containerHeight : {50, 400}, overscan : {0, 5}]
ScrollOffsets == {0, 20, 40, 2000}

\* The hook as constructed: scrollTop is 0.
tableInit == [length |-> 0, itemHeight |-> 40, containerHeight |-> 400, overscan |-> 5, scrollTop |-> 0]

\* visibleRange
visibleRangeUnpadded(t) ==
  LET start == Floor(Frac(t.scrollTop, t.itemHeight))
      end == Min(t.length - 1, Ceil(Frac(t.scrollTop + t.containerHeight, t.itemHeight)))
  IN  [start |-> Max(0, start), end |-> Min(t.length - 1, end)]
visibleRange(t) ==
  LET start == Floor(Frac(t.scrollTop, t.itemHeight))
      end == Min(t.length - 1, Ceil(Frac(t.scrollTop + t.containerHeight, t.itemHeight)))
  IN  [start |-> Max(0, start - t.overscan), end |-> Min(t.length - 1, end + t.overscan)]

visibleItemsCountedFromZero(t) ==
  LET range == visibleRange(t)
      sliced == sliceRange(tableItems(t.length), range.start, range.end + 1)
  IN  [index \in DOMAIN sliced |-> [item |-> sliced[index], index |-> index - 1]]
\* visibleItems
visibleItems(t) ==
  LET range == visibleRange(t)
      sliced == sliceRange(tableItems(t.length), range.start, range.end + 1)
  IN  [index \in DOMAIN sliced |-> [item |-> sliced[index], index |-> range.start + (index - 1)]]

totalHeight(t) == t.length * t.itemHeight
offsetY(t) == visibleRange(t).start * t.itemHeight

\* The scroll offsets the container can be at: the browser keeps its
\* scrollTop between 0 and the content's height less the container's.
maxScrollTop(t) == Max(0, totalHeight(t) - t.containerHeight)

\* handleScroll(e): the container was scrolled to offset.
HandleScroll(offset) ==
  /\ 0 <= offset /\ offset <= maxScrollTop(table)
  /\ table' = [table EXCEPT !.scrollTop = offset]
  /\ UNCHANGED <<streamVars, loopVars, callVars, sampler, perfNow, metrics, provider, dashboard>>

\* scrollToItem(index)
ScrollToItem(index) ==
  /\ table' = [table EXCEPT !.scrollTop = index * table.itemHeight]
  /\ UNCHANGED <<streamVars, loopVars, callVars, sampler, perfNow, metrics, provider, dashboard>>

\* scrollToTop()
ScrollToTop == ScrollToItem(0)

\* scrollToBottom()
ScrollToBottom == ScrollToItem(table.length - 1)

\* The owner renders with another list: the hook keeps its scrollTop.
ItemsChange(n) ==
  /\ n # table.length
  /\ table' = [table EXCEPT !.length = n]
  /\ UNCHANGED <<streamVars, loopVars, callVars, sampler, perfNow, metrics, provider, dashboard>>

\* -------- DataProvider
\* The provider as constructed: no data, filters {categories: []}, period 1min.
providerInit == [data |-> <<>>, filters |-> noFilters, aggregationPeriod |-> "1min"]
\* -------- DashboardContent
\* The dashboard as constructed: the stream hook holds no point yet;
\* clicks counts the clicks on "Add 1000 Points" since the last load.
dashboardInit == [loaded |-> FALSE, length |-> 0, clicks |-> 0]

UiInit ==
  /\ table = tableInit
  /\ sampler = newPerformanceMonitor(0)
  /\ perfNow = 0
  /\ metrics = initialMetrics
  /\ provider = providerInit
  /\ dashboard = dashboardInit

\* No function of the pipeline has been called.
noCall ==
  /\ called = "none"
  /\ returned = <<>>

CallInit ==
  /\ samples = <<>>
  /\ args = <<>>
  /\ noCall

LoopInit ==
  /\ chart = chartInit
  /\ plot = plotInit
  /\ monitor = monitorInit

LoopsNext ==
  \/ ChartMount \/ ChartRerun \/ ChartStop \/ ChartStart \/ ChartUnmount
  \/ \E cb \in FrameCallbacks : ChartFrame(cb)
  \/ PlotMount \/ PlotRerun \/ PlotUnmount
  \/ \E cb \in FrameCallbacks : PlotFrame(cb)
  \/ \E enabled \in BOOLEAN : MonMount(enabled)
  \/ \E enabled \in BOOLEAN : MonRerun(enabled)
  \/ MonUnmount
  \/ \E cb \in FrameCallbacks : MonFrame(cb)

(***************************************************************************)
(* Specifications                                                          *)
(***************************************************************************)
Init == StreamInit /\ LoopInit /\ CallInit /\ UiInit
Next == StreamNext \/ Rerender
Spec == Init /\ [][Next]_vars

\* The dashboard loads a batch before it streams: the consumers are followed
\* from a loaded buffer, under a valid capacity, and without the wall clock,
\* which none of them reads.
SnapInit == StreamInit /\ LoopInit /\ CallInit /\ UiInit /\ maxDataPoints >= 1 /\ initialCount >= MaxInitial - 1
SnapNext ==
  \/ InitialLoad \/ StartStreaming \/ \E h \in 1..MaxTimers : Tick(h) \/ StopStreaming
  \/ ResetData \/ \E count \in 0..MaxAdd : AddDataPoints(count) \/ Unmount \/ Render
SpecSnap == SnapInit /\ [][SnapNext]_vars

\* The loops read nothing of the stream: they are followed beside a stream
\* hook that stays as constructed.
LoopsInit == StreamInit /\ LoopInit /\ CallInit /\ UiInit /\ maxDataPoints = MaxCap /\ initialCount = MaxInitial
SpecLoops == LoopsInit /\ [][LoopsNext]_vars

\* An owner's loop is in order: at most one callback is pending, it carries
\* the handle held in animationFrameRef, and it belongs to the current loop.
loopInOrder(o) ==
  /\ Cardinality(o.pending) <= 1
  /\ \A cb \in o.pending : cb.handle = o.animationFrameRef /\ cb.loop = o.loop

\* C6: every loop has at most one frame callback pending, under the handle
\* stored in animationFrameRef; after stopRenderLoop, an effect re-run, or
\* unmount, nothing of the old loop is pending, so it never runs again.
C6_OneFramePending ==
  /\ loopInOrder(chart) /\ loopInOrder(plot) /\ loopInOrder(monitor)
  /\ ~chart.isRenderingRef => chart.pending = {}
  /\ chart.phase = "unmounted" => chart.pending = {}
  /\ plot.phase = "unmounted" => plot.pending = {}
  /\ monitor.phase = "unmounted" => monitor.pending = {}
  /\ ~monitor.hasCleanup => monitor.pending = {}

\* Each loop was replaced by an effect re-run and the new loop has run a frame.
C6_Witness ==
  /\ \E cb \in chart.pending : cb.loop > 1 /\ cb.handle > cb.loop
  /\ \E cb \in plot.pending : cb.loop > 1 /\ cb.handle > cb.loop
  /\ \E cb \in monitor.pending : cb.loop > 1 /\ cb.handle > cb.loop


(***************************************************************************)
(* Calls of filterData                                                     *)
(***************************************************************************)
MaxFilterLen == 2    \* longest array handed to filterData

SampleCategories == {"temperature", "pressure"}
SampleTimestamps == {0, 500, 1000, 1500}
SampleValues == {10, 20, 40}
SamplePoints ==
  [timestamp : SampleTimestamps, value : SampleValues, category : SampleCategories]

\* The arrays of at most n samples, in any order of timestamps.
SampleArrays(n) == UNION {[1..k -> SamplePoints] : k \in 0..n}

\* The filters objects: each optional field present or absent, categories
\* possibly the empty array, the bounds on sample values and timestamps.
FilterObjects ==
  {f \in [hasCategories : BOOLEAN, categories : SUBSET SampleCategories,
          hasMin : BOOLEAN, minValue : {20}, hasMax : BOOLEAN, maxValue : {20},
          hasRange : BOOLEAN, start : {500}, end : {1500}] :
     ~f.hasCategories => f.categories = {}}

\* The rest of the dashboard stays as constructed while functions are called.
Idle ==
  /\ StreamInit /\ maxDataPoints = MaxCap /\ initialCount = MaxInitial
  /\ LoopInit
  /\ UiInit

FilterInit ==
  /\ Idle
  /\ samples \in SampleArrays(MaxFilterLen)
  /\ args \in FilterObjects
  /\ noCall

\* filterData(samples, args)
CallFilterData ==
  /\ called = "none"
  /\ called' = "filterData"
  /\ returned' = filterData(samples, args)
  /\ UNCHANGED <<streamVars, loopVars, uiVars, samples, args>>

\* filterData(filterData(samples, args), args)
CallFilterDataAgain ==
  /\ called = "filterData"
  /\ called' = "filterData twice"
  /\ returned' = [once |-> returned, twice |-> filterData(returned, args)]
  /\ UNCHANGED <<streamVars, loopVars, uiVars, samples, args>>

FilterNext == CallFilterData \/ CallFilterDataAgain
SpecFilter == FilterInit /\ [][FilterNext]_vars

\* The membership the filter is to decide: every field that is set admits
\* the sample, bounds included.
admitted(point, f) ==
  /\ f.hasCategories => point.category \in f.categories
  /\ f.hasMin => point.value >= f.minValue
  /\ f.hasMax => point.value <= f.maxValue
  /\ f.hasRange => (f.start <= point.timestamp /\ point.timestamp <= f.end)

\* C11: with a non-empty categories array, filterData returns exactly the
\* admitted samples, in input order; bounds are inclusive and the fields are
\* combined conjunctively.
C11_FilterExact ==
  (called = "filterData" /\ args.hasCategories /\ args.categories # {})
    => returned = SelectSeq(samples, LAMBDA point : admitted(point, args))

\* Two samples in, one out, the kept one on the bound of minValue and on the
\* start of timeRange.
C11_Witness ==
  /\ called = "filterData" /\ args.hasCategories /\ args.categories # {}
  /\ args.hasMin /\ args.hasRange
  /\ Len(samples) = 2 /\ Len(returned) = 1
  /\ returned[1].value = args.minValue /\ returned[1].timestamp = args.start

\* The filters object {categories: []}, no other field set.
emptyCategories ==
  [hasCategories |-> TRUE, categories |-> {}, hasMin |-> FALSE, minValue |-> 20,
   hasMax |-> FALSE, maxValue |-> 20, hasRange |-> FALSE, start |-> 500, end |-> 1500]

\* C12: filterData(seq, {categories: []}) returns every sample of seq.
C12_EmptyCategoriesKeepAll ==
  (called = "filterData" /\ args = emptyCategories) => returned = samples

\* C13: filterData is idempotent.
C13_FilterIdempotent ==
  called = "filterData twice" => returned.twice = returned.once

\* The filter was applied twice to an array it shortens but does not empty.
C13_Witness ==
  /\ called = "filterData twice"
  /\ returned.once # <<>> /\ Len(returned.once) < Len(samples)


(***************************************************************************)
(* Calls of aggregateData                                                  *)
(***************************************************************************)
MaxLen == 3          \* longest array handed to aggregateData

bucketTimeNearest(point, periodMs) == Round(Frac(point.timestamp, periodMs)) * periodMs
\* Math.floor(point.timestamp / periodMs) * periodMs
bucketTime(point, periodMs) == Floor(Frac(point.timestamp, periodMs)) * periodMs

RECURSIVE groupIntoOverwrites(_, _, _)
groupIntoOverwrites(arr, periodMs, i) ==
  IF i = 0 THEN <<>>
  ELSE LET buckets == groupIntoOverwrites(arr, periodMs, i - 1)
           key == Floor(Frac(arr[i].timestamp, periodMs)) * periodMs
       IN  IF \E j \in DOMAIN buckets : buckets[j].key = key
           THEN [j \in DOMAIN buckets |->
                   IF buckets[j].key = key
                   THEN [buckets[j] EXCEPT !.points = <<arr[i]>>]
                   ELSE buckets[j]]
           ELSE Append(buckets, [key |-> key, points |-> <<arr[i]>>])

\* The Map of buckets after the first i samples, as the array of its entries
\* in insertion order.
RECURSIVE groupInto(_, _, _)
groupInto(arr, periodMs, i) ==
  IF i = 0 THEN <<>>
  ELSE LET buckets == groupInto(arr, periodMs, i - 1)
           key == bucketTime(arr[i], periodMs)
       IN  IF \E j \in DOMAIN buckets : buckets[j].key = key
           THEN [j \in DOMAIN buckets |->
                   IF buckets[j].key = key
                   THEN [buckets[j] EXCEPT !.points = Append(@, arr[i])]
                   ELSE buckets[j]]
           ELSE Append(buckets, [key |-> key, points |-> <<arr[i]>>])

\* The sample one bucket is summarised by.
summarise(bucket) ==
  LET points == bucket.points
      values == [i \in DOMAIN points |-> points[i].value]
      avgValue == Frac(Sum(values), Len(values))
  IN  [timestamp |-> bucket.key,
       value |-> Frac(Round(Times(avgValue, Whole(100))), 100),
       category |-> points[1].category,
       metadata |-> [count |-> Len(points), min |-> MathMin(values),
                     max |-> MathMax(values), avg |-> avgValue]]

\* Insertion of x into an array sorted by ascending timestamp, after its equals.
RECURSIVE insertAsc(_, _)
insertAsc(sorted, x) ==
  IF sorted = <<>> THEN <<x>>
  ELSE IF x.timestamp < Head(sorted).timestamp THEN <<x>> \o sorted
  ELSE <<Head(sorted)>> \o insertAsc(Tail(sorted), x)

\* aggregated.sort((a, b) => a.timestamp - b.timestamp)
sortAscUnsorted(arr) == arr
RECURSIVE sortAsc(_)
sortAsc(arr) ==
  IF arr = <<>> THEN <<>>
  ELSE insertAsc(sortAsc(SubSeq(arr, 1, Len(arr) - 1)), arr[Len(arr)])

\* aggregateData(data, periodMs)
aggregateData(arr, periodMs) ==
  IF Len(arr) = 0 THEN <<>>
  ELSE LET buckets == groupInto(arr, periodMs, Len(arr))
       IN  sortAsc([j \in DOMAIN buckets |-> summarise(buckets[j])])

Periods == {500, 1000}

AggregateInit ==
  /\ Idle
  /\ samples \in SampleArrays(MaxLen)
  /\ args \in [periodMs : Periods]
  /\ noCall

\* aggregateData(samples, args.periodMs)
CallAggregateData ==
  /\ called = "none"
  /\ called' = "aggregateData"
  /\ returned' = aggregateData(samples, args.periodMs)
  /\ UNCHANGED <<streamVars, loopVars, uiVars, samples, args>>

AggregateNext == CallAggregateData
SpecAggregate == AggregateInit /\ [][AggregateNext]_vars

\* C14: the output of aggregateData is sorted ascending by bucket start (no
\* two buckets share a start, so each is below the next).
C14_BucketsAscending ==
  called = "aggregateData" =>
    \A i, j \in DOMAIN returned : i < j => returned[i].timestamp < returned[j].timestamp

\* The first sample of the input lies in a later bucket than the second.
C14_Witness ==
  /\ called = "aggregateData" /\ Len(returned) >= 2 /\ Len(samples) >= 2
  /\ bucketTime(samples[1], args.periodMs) > bucketTime(samples[2], args.periodMs)


\* C15: the counts of the buckets sum to the input length; empty input gives
\* empty output.
C15_CountsSumToLength ==
  called = "aggregateData" =>
    /\ Sum([j \in DOMAIN returned |-> returned[j].metadata.count]) = Len(samples)
    /\ samples = <<>> => returned = <<>>

\* Three samples were spread over at least two buckets.
C15_Witness ==
  /\ called = "aggregateData" /\ Len(samples) = 3 /\ Len(returned) = 2

\* The samples of the input that lie in the bucket starting at start.
members(start, periodMs) ==
  {i \in DOMAIN samples :
     start <= samples[i].timestamp /\ samples[i].timestamp < start + periodMs}

\* C16: each sample is counted in exactly one bucket, the one that starts at
\* floor(t / w) * w, so that start <= t < start + w.
C16_LeftClosedBuckets ==
  called = "aggregateData" =>
    /\ \A i \in DOMAIN samples :
         LET start == (samples[i].timestamp \div args.periodMs) * args.periodMs
             holding == {j \in DOMAIN returned : returned[j].timestamp = start}
         IN  /\ Cardinality(holding) = 1
             /\ start <= samples[i].timestamp
             /\ samples[i].timestamp < start + args.periodMs
    /\ \A j \in DOMAIN returned :
         /\ returned[j].timestamp % args.periodMs = 0
         /\ returned[j].metadata.count
              = Cardinality(members(returned[j].timestamp, args.periodMs))

\* A sample lies on a boundary other than 0 and opens the bucket that starts
\* there, and another sample lies in the bucket before it.
C16_Witness ==
  /\ called = "aggregateData"
  /\ \E i, k \in DOMAIN samples :
       /\ samples[i].timestamp = args.periodMs
       /\ samples[k].timestamp < args.periodMs
  /\ \E j \in DOMAIN returned :
       returned[j].timestamp = args.periodMs /\ returned[j].metadata.count >= 1

\* The values of the samples of the input that lie in the bucket starting at start.
memberValues(start, periodMs) ==
  LET inside == SelectSeq(samples, LAMBDA point :
                  start <= point.timestamp /\ point.timestamp < start + periodMs)
  IN  [i \in DOMAIN inside |-> inside[i].value]

\* C17: a bucket's value is the arithmetic mean of its members' values, and
\* its min and max are their extrema.
C17_MeanAndExtrema ==
  called = "aggregateData" =>
    \A j \in DOMAIN returned :
      LET values == memberValues(returned[j].timestamp, args.periodMs)
      IN  /\ returned[j].value = Frac(Sum(values), Len(values))
          /\ \A i \in DOMAIN values : returned[j].metadata.min <= values[i]
          /\ \A i \in DOMAIN values : returned[j].metadata.max >= values[i]
          /\ \E i \in DOMAIN values : returned[j].metadata.min = values[i]
          /\ \E i \in DOMAIN values : returned[j].metadata.max = values[i]


(***************************************************************************)
(* Calls of calculateViewport                                              *)
(***************************************************************************)
hourMs == 3600000    \* the width of the viewport of an empty chart

\* The default of the parameter padding, 0.1.
defaultPadding == Frac(1, 10)

\* Math.max(x, y) of two fractions
greater(x, y) == IF Less(x, y) THEN y ELSE x

\* calculateViewport(data); clock and later are what the two calls of
\* Date.now() return.
calculateViewport(arr, padding, clock, later) ==
  IF Len(arr) = 0
  THEN [xMin |-> Whole(clock - hourMs), xMax |-> Whole(later),
        yMin |-> Whole(0), yMax |-> Whole(100)]
  ELSE LET timestamps == [i \in DOMAIN arr |-> arr[i].timestamp]
           values == [i \in DOMAIN arr |-> arr[i].value]
           xMin == Whole(MathMin(timestamps))
           xMax == Whole(MathMax(timestamps))
           yMin == Whole(MathMin(values))
           yMax == Whole(MathMax(values))
           xRange == Minus(xMax, xMin)
           yRange == Minus(yMax, yMin)
       IN  [xMin |-> Minus(xMin, Times(xRange, padding)),
            xMax |-> Plus(xMax, Times(xRange, padding)),
            yMin |-> greater(Whole(0), Minus(yMin, Times(yRange, padding))),
            yMax |-> Plus(yMax, Times(yRange, padding))]

\* The wall clock at the two calls of Date.now(): it may advance in between.
ClockReadings == {[clock |-> hourMs, later |-> hourMs + d] : d \in 0..1}

ViewportInit ==
  /\ Idle
  /\ samples \in SampleArrays(MaxLen)
  /\ args \in ClockReadings
  /\ noCall

\* calculateViewport(samples)
CallCalculateViewport ==
  /\ called = "none"
  /\ called' = "calculateViewport"
  /\ returned' = calculateViewport(samples, defaultPadding, args.clock, args.later)
  /\ UNCHANGED <<streamVars, loopVars, uiVars, samples, args>>

ViewportNext == CallCalculateViewport
SpecViewport == ViewportInit /\ [][ViewportNext]_vars

\* C18: for every input, calculateViewport returns a viewport with
\* xMax > xMin and yMax > yMin.
C18_ViewportNonDegenerate ==
  called = "calculateViewport" =>
    /\ Less(returned.xMin, returned.xMax)
    /\ Less(returned.yMin, returned.yMax)


(***************************************************************************)
(* Calls of dataToCanvas and canvasToData                                  *)
(***************************************************************************)
\* dataToCanvas(point, bounds, viewport)
dataToCanvas(point, bounds, viewport) ==
  [x |-> Plus(Whole(bounds.x),
              Times(Over(Minus(Whole(point.timestamp), viewport.xMin),
                         Minus(viewport.xMax, viewport.xMin)),
                    Whole(bounds.width))),
   y |-> Minus(Plus(Whole(bounds.y), Whole(bounds.height)),
               Times(Over(Minus(Whole(point.value), viewport.yMin),
                          Minus(viewport.yMax, viewport.yMin)),
                     Whole(bounds.height)))]

\* canvasToData(canvasX, canvasY, bounds, viewport)
canvasToDataFromBottom(canvasX, canvasY, bounds, viewport) ==
  [timestamp |-> Plus(viewport.xMin,
                      Times(Over(Minus(canvasX, Whole(bounds.x)), Whole(bounds.width)),
                            Minus(viewport.xMax, viewport.xMin))),
   value |-> Plus(viewport.yMin,
                  Times(Over(Minus(canvasY, Whole(bounds.y)), Whole(bounds.height)),
                        Minus(viewport.yMax, viewport.yMin)))]
canvasToData(canvasX, canvasY, bounds, viewport) ==
  [timestamp |-> Plus(viewport.xMin,
                      Times(Over(Minus(canvasX, Whole(bounds.x)), Whole(bounds.width)),
                            Minus(viewport.xMax, viewport.xMin))),
   value |-> Minus(viewport.yMax,
                   Times(Over(Minus(canvasY, Whole(bounds.y)), Whole(bounds.height)),
                         Minus(viewport.yMax, viewport.yMin)))]

\* Display rectangles of positive width and height.
ChartBoundsChoices == [x : {0, 60}, y : {0, 20}, width : {3, 720}, height : {7, 340}]

\* Viewports with xMax > xMin and yMax > yMin, with whole and fractional
\* limits, containing the samples or cutting through them.
ViewportChoices ==
  [xMin : {Whole(0 - 150), Whole(500)}, xMax : {Whole(1500), Whole(1650)},
   yMin : {Whole(0), Frac(19, 2)}, yMax : {Whole(100), Frac(81, 2)}]

CanvasInit ==
  /\ Idle
  /\ samples = <<>>
  /\ args \in [point : SamplePoints, bounds : ChartBoundsChoices, viewport : ViewportChoices]
  /\ noCall

\* dataToCanvas(args.point, args.bounds, args.viewport)
CallDataToCanvas ==
  /\ called = "none"
  /\ called' = "dataToCanvas"
  /\ returned' = dataToCanvas(args.point, args.bounds, args.viewport)
  /\ UNCHANGED <<streamVars, loopVars, uiVars, samples, args>>

\* canvasToData(x, y, args.bounds, args.viewport) of the point just returned
CallCanvasToData ==
  /\ called = "dataToCanvas"
  /\ called' = "canvasToData"
  /\ returned' = [canvas |-> returned,
                  data |-> canvasToData(returned.x, returned.y, args.bounds, args.viewport)]
  /\ UNCHANGED <<streamVars, loopVars, uiVars, samples, args>>

CanvasNext == CallDataToCanvas \/ CallCanvasToData
SpecCanvas == CanvasInit /\ [][CanvasNext]_vars

\* C19: canvasToData(dataToCanvas(sample)) recovers the sample's timestamp
\* and value, exactly in rational arithmetic, for every display rectangle of
\* positive width and height and every viewport with xMax > xMin and
\* yMax > yMin.
C19_RoundTrip ==
  called = "canvasToData" =>
    /\ returned.data.timestamp = Whole(args.point.timestamp)
    /\ returned.data.value = Whole(args.point.value)

\* The sample was mapped to a canvas point off the pixel grid, away from the
\* rectangle's corner, and mapped back.
C19_Witness ==
  /\ called = "canvasToData"
  /\ returned.canvas.x.den > 1 /\ returned.canvas.y.den > 1
  /\ returned.canvas.x # Whole(args.bounds.x)
  /\ Less(args.viewport.xMin, Whole(args.point.timestamp))
  /\ Less(args.viewport.yMin, Whole(args.point.value))


(***************************************************************************)
(* The decimating renderers                                                *)
(***************************************************************************)
MaxThousands == 60   \* longest array drawn, in thousands of samples

lineDensity == 2000        \* useChartRenderer: data.length / 2000
lowDetailLength == 50000   \* useChartRenderer: data.length > 50000
scatterDensity == 10000    \* ScatterPlot: data.length / 10000, data.length > 10000

\* The indices the loop `for (i = 0; i < length; i += step)` visits.
visited(length, step) == {i \in 0..(length - 1) : i % step = 0}

\* useChartRenderer: useLowDetail, and the step of render's loop.
useLowDetail(length) == length > lowDetailLength
lineStep(length) ==
  IF useLowDetail(length) THEN Max(1, length \div lineDensity) ELSE 1

\* ScatterPlot: the step of render's loop.
scatterStep(length) ==
  IF length > scatterDensity THEN Max(1, length \div scatterDensity) ELSE 1

\* Array lengths on, just below and just above the thousands.
DrawnLengths ==
  {n \in {k * 1000 + d : k \in 0..MaxThousands, d \in {0 - 1, 0, 1}} : n >= 0}

DecimateInit ==
  /\ Idle
  /\ samples = <<>>
  /\ args \in [length : DrawnLengths]
  /\ noCall

\* useChartRenderer's render() draws an array of args.length samples.
RenderLine ==
  /\ called = "none"
  /\ called' = "useChartRenderer render"
  /\ returned' = [step |-> lineStep(args.length),
                  drawn |-> visited(args.length, lineStep(args.length))]
  /\ UNCHANGED <<streamVars, loopVars, uiVars, samples, args>>

\* ScatterPlot's render() draws an array of args.length samples.
RenderScatter ==
  /\ called = "none"
  /\ called' = "ScatterPlot render"
  /\ returned' = [step |-> scatterStep(args.length),
                  drawn |-> visited(args.length, scatterStep(args.length))]
  /\ UNCHANGED <<streamVars, loopVars, uiVars, samples, args>>

DecimateNext == RenderLine \/ RenderScatter
SpecDecimate == DecimateInit /\ [][DecimateNext]_vars

\* Every s-th index from 0 with s = max(1, floor(length / targetDensity)).
everyNth(length, targetDensity) ==
  LET s == IF length \div targetDensity > 1 THEN length \div targetDensity ELSE 1
  IN  [step |-> s, drawn |-> {i \in 0..(length - 1) : i % s = 0}]

\* C20: for every length the line renderer draws every s-th element from
\* index 0 with s = max(1, floor(length / 2000)), and the scatter renderer
\* with s = max(1, floor(length / 10000)).
C20_StrideFromDensity ==
  /\ called = "useChartRenderer render" => returned = everyNth(args.length, 2000)
  /\ called = "ScatterPlot render" => returned = everyNth(args.length, 10000)


(***************************************************************************)
(* The decimation loop, iteration by iteration                             *)
(***************************************************************************)
MaxDrawLen == 8      \* longest array the loop is followed over
MaxStep == 4         \* largest step the loop is followed with

\* The array the loop runs over: n samples, 100 ms apart.
drawnData(n) ==
  [k \in 1..n |-> [timestamp |-> k * interval, value |-> 10 * k, category |-> "temperature"]]

\* i += step
nextIndexSkips(i, step) == i + 2 * step
nextIndex(i, step) == i + step

\* The loop is entered with i = 0 and nothing drawn; step is at least 1,
\* being 1 or Math.max(1, ...).
StrideInit ==
  /\ Idle
  /\ \E n \in 0..MaxDrawLen : samples = drawnData(n)
  /\ args \in [renderer : {"useChartRenderer", "ScatterPlot"}, step : 1..MaxStep]
  /\ called = "stride loop"
  /\ returned = [i |-> 0, drawn |-> <<>>]

\* One iteration of `for (let i = 0; i < data.length; i += step)`: the point
\* data[i] is drawn.
DrawPoint ==
  /\ called = "stride loop"
  /\ returned.i < Len(samples)
  /\ returned' = [i |-> nextIndex(returned.i, args.step),
                  drawn |-> Append(returned.drawn,
                                   [index |-> returned.i, point |-> samples[returned.i + 1]])]
  /\ UNCHANGED <<streamVars, loopVars, uiVars, samples, args, called>>

StrideNext == DrawPoint
SpecStride == StrideInit /\ [][StrideNext]_vars

\* ceil(n / s) for n >= 0 and s >= 1
ceilDiv(n, s) == (n + s - 1) \div s

\* C21: the indices drawn are 0, s, 2s, ... below n, strictly increasing;
\* there are at most ceil(n / s) of them, at least one once the loop has run
\* over a non-empty input, and every drawn point is the input's element at
\* its index.
C21_StridedSubsequence ==
  called = "stride loop" =>
    LET drawn == returned.drawn
        n == Len(samples)
    IN  /\ \A k \in DOMAIN drawn :
             /\ drawn[k].index = (k - 1) * args.step
             /\ drawn[k].index < n
             /\ drawn[k].point = samples[drawn[k].index + 1]
        /\ \A k, l \in DOMAIN drawn : k < l => drawn[k].index < drawn[l].index
        /\ Len(drawn) <= ceilDiv(n, args.step)
        /\ (returned.i >= n /\ n >= 1) => Len(drawn) >= 1

\* The loop has finished over an input the step does not divide, having
\* drawn fewer points than the input holds.
C21_Witness ==
  /\ called = "stride loop"
  /\ returned.i >= Len(samples)
  /\ args.step > 1 /\ Len(samples) % args.step # 0
  /\ Len(returned.drawn) >= 2 /\ Len(returned.drawn) < Len(samples)


(***************************************************************************)
(* The virtualized table                                                   *)
(***************************************************************************)
TableInit ==
  /\ StreamInit /\ maxDataPoints = MaxCap /\ initialCount = MaxInitial
  /\ LoopInit /\ CallInit
  /\ \E o \in TableOptions, n \in TableLengths :
       table = [length |-> n, itemHeight |-> o.itemHeight,
                containerHeight |-> o.containerHeight, overscan |-> o.overscan,
                scrollTop |-> 0]
  /\ sampler = newPerformanceMonitor(0) /\ perfNow = 0 /\ metrics = initialMetrics
  /\ provider = providerInit /\ dashboard = dashboardInit

TableNext ==
  \/ \E offset \in ScrollOffsets \cup {maxScrollTop(table)} : HandleScroll(offset)
  \/ \E index \in {k \in {1, 50} : k < table.length} : ScrollToItem(index)
  \/ ScrollToTop
  \/ ScrollToBottom
  \/ \E n \in TableLengths : ItemsChange(n)
SpecTable == TableInit /\ [][TableNext]_vars

\* ceil(a / b) and floor(a / b) for b > 0
ceilOf(a, b) == 0 - ((0 - a) \div b)
floorOf(a, b) == a \div b

\* C22: visibleStart = max(0, floor(scrollOffset / itemExtent) - overscan),
\* visibleEnd = min(length - 1, ceil((scrollOffset + containerExtent) /
\* itemExtent) + overscan), totalExtent = length * itemExtent and
\* leadingOffset = visibleStart * itemExtent, for every scrollOffset >= 0.
C22_WindowFormulas ==
  table.scrollTop >= 0 =>
    LET start == floorOf(table.scrollTop, table.itemHeight) - table.overscan
        end == ceilOf(table.scrollTop + table.containerHeight, table.itemHeight)
                 + table.overscan
        visibleStart == IF start > 0 THEN start ELSE 0
        visibleEnd == IF end < table.length - 1 THEN end ELSE table.length - 1
    IN  /\ visibleRange(table) = [start |-> visibleStart, end |-> visibleEnd]
        /\ totalHeight(table) = table.length * table.itemHeight
        /\ offsetY(table) = visibleStart * table.itemHeight

\* The scenario: 10000 rows of 40 in a container of 400 with overscan 5,
\* scrolled to 2000, show rows 45 to 65 of a content of 400000, led by 1800.
C22_Witness ==
  /\ table = [length |-> 10000, itemHeight |-> 40, containerHeight |-> 400,
              overscan |-> 5, scrollTop |-> 2000]
  /\ visibleRange(table) = [start |-> 45, end |-> 65]
  /\ totalHeight(table) = 400000
  /\ offsetY(table) = 1800


\* C23: for every list length > 0 and every scroll offset, one kept while the
\* list shrank or set by scrollToBottom included,
\* 0 <= visibleStart <= visibleEnd <= length - 1.
C23_WindowClamped ==
  table.length > 0 =>
    /\ 0 <= visibleRange(table).start
    /\ visibleRange(table).start <= visibleRange(table).end
    /\ visibleRange(table).end <= table.length - 1

\* C30: with scrollTop between 0 and max(0, totalHeight - containerHeight),
\* every row whose extent overlaps the visible interval lies in
\* [visibleStart, visibleEnd], and visibleItems is exactly the items at the
\* indices visibleStart..visibleEnd, each paired with its own index.
C30_VisibleRowsCovered ==
  (0 <= table.scrollTop /\ table.scrollTop <= maxScrollTop(table)) =>
    LET range == visibleRange(table)
        shown == visibleItems(table)
    IN  /\ \A i \in 0..(table.length - 1) :
             (/\ i * table.itemHeight < table.scrollTop + table.containerHeight
              /\ (i + 1) * table.itemHeight > table.scrollTop)
               => (range.start <= i /\ i <= range.end)
        /\ Len(shown) = range.end - range.start + 1
        /\ \A k \in DOMAIN shown :
             /\ shown[k].index = range.start + k - 1
             /\ shown[k].item = tableItems(table.length)[shown[k].index + 1]

\* The container is scrolled into the middle of a long list, off a row
\* boundary, and rows are cut off at both ends of the window.
C30_Witness ==
  /\ table.length = 10000 /\ table.scrollTop = 20 /\ table.itemHeight = 7
  /\ table.overscan = 0
  /\ visibleRange(table).start > 0
  /\ Len(visibleItems(table)) >= 2


(***************************************************************************)
(* The PerformanceMonitor object and its hook                              *)
(***************************************************************************)
MaxElapsed == 1600   \* ms of frames the object is followed over

\* Frames arrive in a fixed rhythm: a slow one, then two fast ones.
pacedDelta(clock) == IF (clock \div 8) % 3 = 0 THEN 40 ELSE 16

\* measureFrame() of the object, at the next frame of the rhythm
CallMeasureFrame ==
  /\ perfNow < MaxElapsed
  /\ \E delta \in FrameDeltas :
       /\ delta = pacedDelta(perfNow)
       /\ perfNow' = perfNow + delta
       /\ sampler' = measureFrame(sampler, perfNow + delta)
  /\ UNCHANGED <<streamVars, loopVars, callVars, table, metrics, provider, dashboard>>

\* reset() of the object
CallResetMonitor ==
  /\ sampler.frameTimes # <<>>
  /\ sampler' = resetMonitor(sampler, perfNow)
  /\ UNCHANGED <<streamVars, loopVars, callVars, table, perfNow, metrics, provider, dashboard>>

SamplerNext == CallMeasureFrame \/ CallResetMonitor
SamplerInit == Idle /\ CallInit
SpecSampler == SamplerInit /\ [][SamplerNext]_vars

\* C24: the rolling buffer holds at most 60 frame times; a frame time is
\* appended, evicting the oldest one when the buffer is full, and reset
\* empties the buffer: the buffer is the most recent (up to 60) frame times
\* since the last reset, in order.
C24_RollingBuffer ==
  /\ [](Len(sampler.frameTimes) <= 60)
  /\ [][sampler'.frameCount > sampler.frameCount =>
          sampler'.frameTimes =
            (IF Len(sampler.frameTimes) = 60
             THEN Tail(sampler.frameTimes) ELSE sampler.frameTimes)
              \o <<perfNow' - sampler.lastFrameTime>>]_vars
  /\ [][(sampler' # sampler /\ sampler'.frameCount <= sampler.frameCount) =>
          sampler'.frameTimes = <<>>]_vars

\* More than 61 frames were measured since a reset that came after the first
\* frames (the rhythm takes at most 24 ms a frame and 16 ms more): the buffer
\* is full and has evicted its oldest entries.
C24_Witness ==
  /\ Len(sampler.frameTimes) = 60
  /\ sampler.frameCount >= 62
  /\ perfNow > 24 * sampler.frameCount + 16


\* The hook of the metrics panel: its effect, its frame loop feeding the
\* object, the 1-second snapshot and reset().
MonitorNext ==
  \/ \E enabled \in BOOLEAN : MonMount(enabled)
  \/ \E enabled \in BOOLEAN : MonRerun(enabled)
  \/ \E cb \in FrameCallbacks : MonFrame(cb)
  \/ \E h \in 1..(MaxFrames + 1) : MonTick(h)
  \/ MonReset
  \/ MonUnmount
SpecMonitor == LoopsInit /\ [][MonitorNext]_vars

\* round(1000 / mean) of a buffer of frame times; a sampler that holds no
\* frame time reports the fps it is constructed with.
fpsOfBuffer(frameTimes) ==
  IF frameTimes = <<>> THEN 60
  ELSE (2000 * Len(frameTimes) + Sum(frameTimes)) \div (2 * Sum(frameTimes))

\* C25: in every reachable state the snapshot getMetrics takes reports
\* fps = round(1000 / mean of the frame times in the rolling buffer), also
\* after reset() and before the next frame.
C25_FpsOfCurrentBuffer ==
  getMetrics(sampler).fps = fpsOfBuffer(sampler.frameTimes)

\* C26: reset() empties the rolling buffer and sets the frame counter to 0
\* and leaves the loops untouched: the pending frame callback and the
\* snapshot interval are as before.
C26_ResetKeepsLoops ==
  [][MonReset =>
       /\ sampler'.frameTimes = <<>>
       /\ sampler'.frameCount = 0
       /\ monitor'.pending = monitor.pending
       /\ monitor'.intervals = monitor.intervals
       /\ monitor'.animationFrameRef = monitor.animationFrameRef
       /\ monitor'.intervalRef = monitor.intervalRef]_vars

\* The first loop of the hook is running, with its interval; two frames have
\* fired, and only the second is counted: reset() was called in between.
C26_Witness ==
  /\ monitor.loop = 1 /\ monitor.nextFrame = 4
  /\ monitor.pending # {} /\ monitor.intervals # {}
  /\ sampler.frameCount = 1 /\ Len(sampler.frameTimes) = 1


(***************************************************************************)
(* The DataProvider                                                        *)
(***************************************************************************)
\* aggregationPeriods
aggregationPeriods ==
  [type \in {"1min", "5min", "1hour"} |->
     IF type = "1min" THEN 60000 ELSE IF type = "5min" THEN 300000 ELSE 3600000]

\* filteredData
filteredData(pr) ==
  LET filtered == IF providerFilters(pr.filters)
                  THEN filterData(pr.data, providerArgument(pr.filters))
                  ELSE pr.data
  IN  IF pr.aggregationPeriod # "1min" /\ Len(filtered) > 0
      THEN aggregateData(filtered, aggregationPeriods[pr.aggregationPeriod])
      ELSE filtered

\* The data handed to the provider: up to two samples within a few minutes.
ProviderData ==
  LET points == [timestamp : {0, 30000, 90000, 400000}, value : {10, 20},
                 category : {"temperature"}]
  IN  UNION {[1..k -> points] : k \in 0..2}

\* The filters the panel sets: none, a category, a least value.
ProviderFilters ==
  {noFilters,
   [noFilters EXCEPT !.categories = {"temperature"}],
   [noFilters EXCEPT !.hasMin = TRUE, !.minValue = 20]}

ProviderInit ==
  /\ StreamInit /\ maxDataPoints = MaxCap /\ initialCount = MaxInitial
  /\ LoopInit /\ CallInit
  /\ table = tableInit
  /\ sampler = newPerformanceMonitor(0) /\ perfNow = 0 /\ metrics = initialMetrics
  /\ \E d \in ProviderData : provider = [providerInit EXCEPT !.data = d]
  /\ dashboard = dashboardInit

\* setFilters(filters)
SetFilters(filters) ==
  /\ filters # provider.filters
  /\ provider' = [provider EXCEPT !.filters = filters]
  /\ UNCHANGED <<streamVars, loopVars, callVars, table, sampler, perfNow, metrics, dashboard>>

\* setAggregationPeriod(type)
SetAggregationPeriod(type) ==
  /\ type # provider.aggregationPeriod
  /\ provider' = [provider EXCEPT !.aggregationPeriod = type]
  /\ UNCHANGED <<streamVars, loopVars, callVars, table, sampler, perfNow, metrics, dashboard>>

\* resetFilters()
ResetFilters ==
  /\ provider' = [provider EXCEPT !.filters = noFilters, !.aggregationPeriod = "1min"]
  /\ UNCHANGED <<streamVars, loopVars, callVars, table, sampler, perfNow, metrics, dashboard>>

ProviderNext ==
  \/ \E filters \in ProviderFilters : SetFilters(filters)
  \/ \E type \in DOMAIN aggregationPeriods : SetAggregationPeriod(type)
  \/ ResetFilters
SpecProvider == ProviderInit /\ [][ProviderNext]_vars

\* The data the filters admit, an empty categories array admitting every
\* category.
selected(pr) ==
  SelectSeq(pr.data, LAMBDA point :
    /\ pr.filters.categories # {} => point.category \in pr.filters.categories
    /\ pr.filters.hasMin => point.value >= pr.filters.minValue
    /\ pr.filters.hasMax => point.value <= pr.filters.maxValue
    /\ pr.filters.hasRange =>
         (pr.filters.start <= point.timestamp /\ point.timestamp <= pr.filters.end))

\* C27: for each period of the vocabulary, filteredData is the filtered data
\* aggregated with the period's bucket width: 1min with 60000 ms, 5min with
\* 300000 ms, 1hour with 3600000 ms.
C27_PeriodWidths ==
  /\ provider.aggregationPeriod = "1min" =>
       filteredData(provider) = aggregateData(selected(provider), 60000)
  /\ provider.aggregationPeriod = "5min" =>
       filteredData(provider) = aggregateData(selected(provider), 300000)
  /\ provider.aggregationPeriod = "1hour" =>
       filteredData(provider) = aggregateData(selected(provider), 3600000)


(***************************************************************************)
(* Adaptive detail of the line renderer                                    *)
(***************************************************************************)
\* shouldUseLowDetail(fps, dataPointCount)
shouldUseLowDetail(fps, dataPointCount) == fps < 30 \/ dataPointCount > 50000

\* The fps the sampler reports while the chart renders.
SampledFps == {20, 29, 30, 60}

DetailInit ==
  /\ Idle
  /\ samples = <<>>
  /\ args \in [length : DrawnLengths, fps : SampledFps]
  /\ noCall

\* useChartRenderer renders an array of args.length samples while the
\* sampler reports args.fps: useLowDetail and the step of the loop.
RenderDetail ==
  /\ called = "none"
  /\ called' = "useChartRenderer useLowDetail"
  /\ returned' = [useLowDetail |-> useLowDetail(args.length), step |-> lineStep(args.length)]
  /\ UNCHANGED <<streamVars, loopVars, uiVars, samples, args>>

DetailNext == RenderDetail
SpecDetail == DetailInit /\ [][DetailNext]_vars

\* C28: the line renderer draws in low detail exactly when
\* shouldUseLowDetail(fps, n) holds: the sampled fps is below 30 or the
\* point count exceeds 50000.
C28_LowDetailFollowsSampler ==
  called = "useChartRenderer useLowDetail" =>
    (returned.useLowDetail <=> shouldUseLowDetail(args.fps, args.length))


(***************************************************************************)
(* The dashboard as configured: the number of points it holds              *)
(***************************************************************************)
configuredMaxDataPoints == 10000   \* useDataStream({maxDataPoints: 10000})
configuredInitialCount == 1000     \* useDataStream({initialCount: 1000})
pointsPerClick == 1000             \* addDataPoints(1000)
MaxClicks == 12                    \* clicks followed after a load

\* The length of [...prevData, ...newPoints] after the trim to the last
\* maxDataPoints.
lengthAfterAppend(length, added, cap) ==
  IF length + added > cap THEN Min(cap, length + added) ELSE length + added

\* The stream hook's initial-load effect: generateBatch(initialCount).
DashboardLoad ==
  /\ ~dashboard.loaded
  /\ dashboard' = [loaded |-> TRUE, length |-> configuredInitialCount, clicks |-> 0]
  /\ UNCHANGED <<streamVars, loopVars, callVars, table, sampler, perfNow, metrics, provider>>

\* A click on "Add 1000 Points": addDataPoints(1000).
ClickAddPoints ==
  /\ dashboard.loaded
  /\ dashboard.clicks < MaxClicks
  /\ dashboard' = [dashboard EXCEPT !.length =
                     lengthAfterAppend(@, pointsPerClick, configuredMaxDataPoints),
                                    !.clicks = @ + 1]
  /\ UNCHANGED <<streamVars, loopVars, callVars, table, sampler, perfNow, metrics, provider>>

\* A tick of the stream while it is streaming: one point is appended and
\* the array is trimmed to the last maxDataPoints.
DashboardTick ==
  /\ dashboard.loaded
  /\ dashboard' = [dashboard EXCEPT !.length =
                     lengthAfterAppend(@, 1, configuredMaxDataPoints)]
  /\ UNCHANGED <<streamVars, loopVars, callVars, table, sampler, perfNow, metrics, provider>>

\* A click on "Reset Data": resetData().
ClickReset ==
  /\ dashboard.loaded
  /\ dashboard' = [dashboard EXCEPT !.length = configuredInitialCount, !.clicks = 0]
  /\ UNCHANGED <<streamVars, loopVars, callVars, table, sampler, perfNow, metrics, provider>>

DashboardNext == DashboardLoad \/ ClickAddPoints \/ DashboardTick \/ ClickReset
\* The dashboard before its first effect has run.
DashboardInit == Idle /\ CallInit
SpecDashboard == DashboardInit /\ [][DashboardNext]_vars

\* C29: every click on "Add 1000 Points" increases the number of points
\* held, so that 50,000 points and more are reachable.
C29_ClickAddsPoints ==
  [][dashboard'.clicks > dashboard.clicks => dashboard'.length > dashboard.length]_vars

====
